---- MODULE Spec2Model ----
(***************************************************************************)
(* Model of app.py: the Flask routes, the /resetdb handler step by step,   *)
(* the SQLite file it rebuilds, and the constraints its schema declares.   *)
(*                                                                         *)
(* Spec     - worker threads serving requests concurrently                 *)
(* SpecSeq  - the same handlers, one request at a time                     *)
(* SpecSql  - statements run against the seeded schema through             *)
(*            get_db_connection, the way resetdb runs its own statements   *)
(***************************************************************************)
EXTENDS Integers, Sequences, FiniteSets, TLC

\* ------------------------------------------------------------------ bounds
NumWorkers == 2
MaxRequests == 2
MaxStatements == 3

Workers == 1..NumWorkers
Inodes == 1..NumWorkers

\* ------------------------------------------------------------ value domain
\* DB_PATH names no file
NoFile == 0
\* SQL NULL / Python None in an integer or real column
NULL == 0 - 1000
\* SQL NULL in a text column
NullText == "<NULL>"
\* REAL values are kept in quarters, so that 0.25 and 6.5 are representable
Quarters(whole, quarters) == 4 * whole + quarters

AllowedRatings ==
    { Quarters(0, 2), Quarters(1, 0), Quarters(1, 2), Quarters(2, 0),
      Quarters(2, 2), Quarters(3, 0), Quarters(3, 2), Quarters(4, 0),
      Quarters(4, 2), Quarters(5, 0), Quarters(5, 2), Quarters(6, 0) }

Schema == << "Instrumentation", "Instrument", "HasInstrument", "Piece" >>

AutoTables == { "Instrumentation", "Instrument", "Piece" }

EmptyDb ==
    [ tables          |-> {},
      Instrumentation |-> {},
      Instrument      |-> {},
      HasInstrument   |-> {},
      Piece           |-> {},
      seq             |-> [ t \in AutoTables |-> 0 ] ]

SeedRows ==
    << [ table |-> "Instrumentation", values |-> [ name |-> "Solo Flute" ] ],
       [ table |-> "Instrumentation", values |-> [ name |-> "String Quartet" ] ],
       [ table |-> "Instrument", values |-> [ name |-> "Flute" ] ],
       [ table |-> "Instrument", values |-> [ name |-> "Violin" ] ],
       [ table |-> "Instrument", values |-> [ name |-> "Viola" ] ],
       [ table |-> "Instrument", values |-> [ name |-> "Cello" ] ],
       [ table |-> "HasInstrument",
         values |-> [ instrumentation_id |-> 1, instrument_id |-> 1, instrument_count |-> 1 ] ],
       [ table |-> "HasInstrument",
         values |-> [ instrumentation_id |-> 2, instrument_id |-> 2, instrument_count |-> 2 ] ],
       [ table |-> "HasInstrument",
         values |-> [ instrumentation_id |-> 2, instrument_id |-> 3, instrument_count |-> 1 ] ],
       [ table |-> "HasInstrument",
         values |-> [ instrumentation_id |-> 2, instrument_id |-> 4, instrument_count |-> 1 ] ],
       [ table |-> "Piece",
         values |-> [ name |-> "Meditation for Flute", instrumentation |-> 1,
                      duration_seconds |-> 210, year_of_composition |-> 2018,
                      difficulty_rating |-> Quarters(3, 2) ] ],
       [ table |-> "Piece",
         values |-> [ name |-> "Quartet in A", instrumentation |-> 2,
                      duration_seconds |-> 1260, year_of_composition |-> 1799,
                      difficulty_rating |-> Quarters(4, 0) ] ],
       [ table |-> "Piece",
         values |-> [ name |-> "Beginner Etude", instrumentation |-> 1,
                      duration_seconds |-> 90, year_of_composition |-> 2021,
                      difficulty_rating |-> Quarters(0, 2) ] ],
       [ table |-> "Piece",
         values |-> [ name |-> "Advanced Sonata", instrumentation |-> NULL,
                      duration_seconds |-> 1800, year_of_composition |-> 2005,
                      difficulty_rating |-> Quarters(6, 0) ] ] >>

\* ------------------------------------------------------- the engine's rules
Ok(db) == [ exc |-> "none", msg |-> "", db |-> db ]

Raise(db, cls, msg) == [ exc |-> cls, msg |-> msg, db |-> db ]

Ids(rows) == { row.id : row \in rows }

\* CREATE TABLE t (...)
CreateTableOp(db, t) ==
    IF t \in db.tables
    THEN Raise(db, "sqlite3.OperationalError", "table already exists")
    ELSE Ok([ db EXCEPT !.tables = @ \cup { t } ])

\* INSERT INTO Instrumentation (name) VALUES (?)
InsertInstrumentation(db, v, fk) ==
    IF "Instrumentation" \notin db.tables
    THEN Raise(db, "sqlite3.OperationalError", "no such table")
    ELSE IF \/ v.name = NullText
            \/ \E row \in db.Instrumentation : row.name = v.name
    THEN Raise(db, "sqlite3.IntegrityError", "constraint failed")
    ELSE Ok([ db EXCEPT
                !.Instrumentation = @ \cup { [ id |-> db.seq["Instrumentation"] + 1,
                                               name |-> v.name ] },
                !.seq["Instrumentation"] = @ + 1 ])

\* faulty variant: the Instrument table declared without UNIQUE on name
InsertInstrumentNotUnique(db, v, fk) ==
    IF "Instrument" \notin db.tables
    THEN Raise(db, "sqlite3.OperationalError", "no such table")
    ELSE IF v.name = NullText
    THEN Raise(db, "sqlite3.IntegrityError", "constraint failed")
    ELSE Ok([ db EXCEPT
                !.Instrument = @ \cup { [ id |-> db.seq["Instrument"] + 1,
                                          name |-> v.name ] },
                !.seq["Instrument"] = @ + 1 ])

\* INSERT INTO Instrument (name) VALUES (?)
InsertInstrument(db, v, fk) ==
    IF "Instrument" \notin db.tables
    THEN Raise(db, "sqlite3.OperationalError", "no such table")
    ELSE IF \/ v.name = NullText
            \/ \E row \in db.Instrument : row.name = v.name
    THEN Raise(db, "sqlite3.IntegrityError", "constraint failed")
    ELSE Ok([ db EXCEPT
                !.Instrument = @ \cup { [ id |-> db.seq["Instrument"] + 1,
                                          name |-> v.name ] },
                !.seq["Instrument"] = @ + 1 ])

\* INSERT INTO HasInstrument (instrumentation_id, instrument_id, instrument_count)
InsertHasInstrument(db, v, fk) ==
    IF \/ "HasInstrument" \notin db.tables
       \/ fk /\ ~ ({ "Instrumentation", "Instrument" } \subseteq db.tables)
    THEN Raise(db, "sqlite3.OperationalError", "no such table")
    ELSE IF \/ v.instrumentation_id = NULL
            \/ v.instrument_id = NULL
            \/ v.instrument_count = NULL
            \/ ~ (v.instrument_count >= 0)
            \/ \E row \in db.HasInstrument :
                   /\ row.instrumentation_id = v.instrumentation_id
                   /\ row.instrument_id = v.instrument_id
            \/ fk /\ v.instrumentation_id \notin Ids(db.Instrumentation)
            \/ fk /\ v.instrument_id \notin Ids(db.Instrument)
    THEN Raise(db, "sqlite3.IntegrityError", "constraint failed")
    ELSE Ok([ db EXCEPT !.HasInstrument = @ \cup { v } ])

\* faulty variant: the Piece table declared without the CHECK on difficulty_rating
InsertPieceUnchecked(db, v, fk) ==
    IF \/ "Piece" \notin db.tables
       \/ fk /\ v.instrumentation # NULL /\ "Instrumentation" \notin db.tables
    THEN Raise(db, "sqlite3.OperationalError", "no such table")
    ELSE IF \/ v.name = NullText
            \/ v.difficulty_rating = NULL
            \/ /\ fk
               /\ v.instrumentation # NULL
               /\ v.instrumentation \notin Ids(db.Instrumentation)
    THEN Raise(db, "sqlite3.IntegrityError", "constraint failed")
    ELSE Ok([ db EXCEPT
                !.Piece = @ \cup { [ id |-> db.seq["Piece"] + 1,
                                     name |-> v.name,
                                     instrumentation |-> v.instrumentation,
                                     duration_seconds |-> v.duration_seconds,
                                     year_of_composition |-> v.year_of_composition,
                                     difficulty_rating |-> v.difficulty_rating ] },
                !.seq["Piece"] = @ + 1 ])

\* INSERT INTO Piece (name, instrumentation, duration_seconds,
\*                    year_of_composition, difficulty_rating)
InsertPiece(db, v, fk) ==
    IF \/ "Piece" \notin db.tables
       \/ fk /\ v.instrumentation # NULL /\ "Instrumentation" \notin db.tables
    THEN Raise(db, "sqlite3.OperationalError", "no such table")
    ELSE IF \/ v.name = NullText
            \/ v.difficulty_rating = NULL
            \/ v.difficulty_rating \notin AllowedRatings
            \/ /\ fk
               /\ v.instrumentation # NULL
               /\ v.instrumentation \notin Ids(db.Instrumentation)
    THEN Raise(db, "sqlite3.IntegrityError", "constraint failed")
    ELSE Ok([ db EXCEPT
                !.Piece = @ \cup { [ id |-> db.seq["Piece"] + 1,
                                     name |-> v.name,
                                     instrumentation |-> v.instrumentation,
                                     duration_seconds |-> v.duration_seconds,
                                     year_of_composition |-> v.year_of_composition,
                                     difficulty_rating |-> v.difficulty_rating ] },
                !.seq["Piece"] = @ + 1 ])

Insert(db, t, v, fk) ==
    CASE t = "Instrumentation" -> InsertInstrumentation(db, v, fk)
      [] t = "Instrument"      -> InsertInstrument(db, v, fk)
      [] t = "HasInstrument"   -> InsertHasInstrument(db, v, fk)
      [] t = "Piece"           -> InsertPiece(db, v, fk)

\* faulty variant: Piece.instrumentation declared ON DELETE CASCADE
DeleteInstrumentationCascadingPieces(db, id, fk) ==
    IF "Instrumentation" \notin db.tables
    THEN Raise(db, "sqlite3.OperationalError", "no such table")
    ELSE IF ~ fk \/ id \notin Ids(db.Instrumentation)
    THEN Ok([ db EXCEPT !.Instrumentation = { row \in @ : row.id # id } ])
    ELSE Ok([ db EXCEPT
                !.Instrumentation = { row \in @ : row.id # id },
                !.HasInstrument = { row \in @ : row.instrumentation_id # id },
                !.Piece = { row \in @ : row.instrumentation # id } ])

\* DELETE FROM Instrumentation WHERE id = ?
\* children: HasInstrument ON DELETE CASCADE, Piece ON DELETE SET NULL
DeleteInstrumentation(db, id, fk) ==
    IF "Instrumentation" \notin db.tables
    THEN Raise(db, "sqlite3.OperationalError", "no such table")
    ELSE IF ~ fk \/ id \notin Ids(db.Instrumentation)
    THEN Ok([ db EXCEPT !.Instrumentation = { row \in @ : row.id # id } ])
    ELSE Ok([ db EXCEPT
                !.Instrumentation = { row \in @ : row.id # id },
                !.HasInstrument = { row \in @ : row.instrumentation_id # id },
                !.Piece = { IF row.instrumentation = id
                            THEN [ row EXCEPT !.instrumentation = NULL ]
                            ELSE row : row \in @ } ])

\* DELETE FROM Instrument WHERE id = ?
\* child: HasInstrument ON DELETE RESTRICT
DeleteInstrument(db, id, fk) ==
    IF "Instrument" \notin db.tables
    THEN Raise(db, "sqlite3.OperationalError", "no such table")
    ELSE IF /\ fk
            /\ id \in Ids(db.Instrument)
            /\ \E row \in db.HasInstrument : row.instrument_id = id
    THEN Raise(db, "sqlite3.IntegrityError", "constraint failed")
    ELSE Ok([ db EXCEPT !.Instrument = { row \in @ : row.id # id } ])

\* DELETE FROM Piece WHERE id = ?
DeletePiece(db, id, fk) ==
    IF "Piece" \notin db.tables
    THEN Raise(db, "sqlite3.OperationalError", "no such table")
    ELSE Ok([ db EXCEPT !.Piece = { row \in @ : row.id # id } ])

Delete(db, t, id, fk) ==
    CASE t = "Instrumentation" -> DeleteInstrumentation(db, id, fk)
      [] t = "Instrument"      -> DeleteInstrument(db, id, fk)
      [] t = "Piece"           -> DeletePiece(db, id, fk)

\* ------------------------------------------------------ Python exceptions
\* the classes an exception of class cls is an instance of
Mro(cls) ==
    CASE cls = "sqlite3.OperationalError" ->
             { cls, "sqlite3.DatabaseError", "sqlite3.Error", "Exception" }
      [] cls = "sqlite3.IntegrityError" ->
             { cls, "sqlite3.DatabaseError", "sqlite3.Error", "Exception" }
      [] cls = "FileNotFoundError" -> { cls, "OSError", "Exception" }
      [] cls = "PermissionError" -> { cls, "OSError", "Exception" }

\* faulty variant: the try block guarded by except sqlite3.Error
ExceptClauseSqliteOnly(site) ==
    CASE site = "remove" -> "OSError"
      [] site = "try"    -> "sqlite3.Error"

\* the class each except clause of resetdb names
ExceptClause(site) ==
    CASE site = "remove" -> "OSError"
      [] site = "try"    -> "Exception"

NoResp == [ status |-> 0, body |-> "", unhandled |-> FALSE, pieces |-> << >> ]

\* what the request answers when a step at `site` raises cls with text msg
\* (the body "Failed to (re)build database schema: {e}" is kept as {e})
HandleException(site, cls, msg) ==
    IF ExceptClause(site) \in Mro(cls)
    THEN [ status |-> 500,
           body |-> IF site = "remove"
                    THEN "Failed to remove existing database file."
                    ELSE msg,
           unhandled |-> FALSE, pieces |-> << >> ]
    ELSE [ status |-> 500, body |-> "Internal Server Error",
           unhandled |-> TRUE, pieces |-> << >> ]

\* render_template(name, current_year=...): no piece row is handed to a template
RenderTemplate(name) ==
    [ status |-> 200, body |-> name, unhandled |-> FALSE, pieces |-> << >> ]

Redirect(endpoint) ==
    [ status |-> 302, body |-> endpoint, unhandled |-> FALSE, pieces |-> << >> ]

\* ------------------------------------------------------------------- state
VARIABLES
    path,        \* the inode DB_PATH names, or NoFile
    files,       \* inode -> committed database content
    debugTxt,    \* what DEBUG_PATH holds: the piece count last written, or NULL
    route,       \* per worker: the route it serves
    pc,          \* per worker: its position in the handler
    ip,          \* per worker: index of the next CREATE / INSERT statement
    conn,        \* per worker: its sqlite3 connection
    txn,         \* per worker: its open transaction (uncommitted content)
    resp,        \* per worker: the response it returns
    raised,      \* per worker: the exception class raised in this request
    steps,       \* per worker: steps of the try block completed so far, 0 once one raised
    overlapped,  \* per worker: another /resetdb was in progress during this one
    started,     \* requests started so far
    last         \* SpecSql: the statement last executed, the content before it, its outcome

vars == << path, files, debugTxt, route, pc, ip, conn, txn, resp, raised, steps,
           overlapped, started, last >>

NoConn == [ inode |-> NoFile, foreign_keys |-> FALSE ]

NoTxn == [ active |-> FALSE, db |-> EmptyDb ]

NoStmt == [ op |-> "none", table |-> "none", id |-> NULL, values |-> [ name |-> NullText ] ]

NoLast == [ n |-> 0, stmt |-> NoStmt, before |-> EmptyDb, exc |-> "none", resp |-> NoResp ]

\* faulty variant: the connection opened without PRAGMA foreign_keys = ON
get_db_connection_no_pragma(inode) == [ inode |-> inode, foreign_keys |-> FALSE ]

\* sqlite3.connect + row_factory + PRAGMA foreign_keys = ON
get_db_connection(inode) == [ inode |-> inode, foreign_keys |-> TRUE ]

\* an unlinked inode lives as long as a connection holds it open
Live(i, p, cs) == p = i \/ \E r \in Workers : cs[r].inode = i

Gc(fs, p, cs) == [ i \in Inodes |-> IF Live(i, p, cs) THEN fs[i] ELSE EmptyDb ]

FreshInode == CHOOSE i \in Inodes : ~ Live(i, path, conn) /\ \A j \in Inodes : ~ Live(j, path, conn) => i <= j

\* what a connection reads: its own uncommitted content, else the committed one
View(r) == IF txn[r].active THEN txn[r].db ELSE files[conn[r].inode]

\* another connection holds the write lock of r's database file
Locked(r) ==
    \E s \in Workers : s # r /\ txn[s].active /\ conn[s].inode = conn[r].inode

Active(r) == route[r] = "resetdb" /\ pc[r] # "idle"

Quiet == \A r \in Workers : pc[r] = "idle"

\* a database file left by an earlier deployment
LegacyDb ==
    [ tables          |-> { "Instrumentation", "Instrument", "HasInstrument", "Piece" },
      Instrumentation |-> { [ id |-> 1, name |-> "Piano Duo" ] },
      Instrument      |-> { [ id |-> 1, name |-> "Piano" ] },
      HasInstrument   |-> { [ instrumentation_id |-> 1, instrument_id |-> 1,
                              instrument_count |-> 2 ] },
      Piece           |-> { [ id |-> 1, name |-> "Old Work", instrumentation |-> 1,
                              duration_seconds |-> 300, year_of_composition |-> 1990,
                              difficulty_rating |-> Quarters(2, 0) ],
                            [ id |-> 2, name |-> "Older Work", instrumentation |-> NULL,
                              duration_seconds |-> 60, year_of_composition |-> 1980,
                              difficulty_rating |-> Quarters(1, 2) ] },
      seq             |-> [ t \in AutoTables |-> IF t = "Piece" THEN 2 ELSE 1 ] ]

PriorFiles == { EmptyDb, LegacyDb }

InitWorkers ==
    /\ debugTxt = NULL
    /\ route = [ r \in Workers |-> "none" ]
    /\ pc = [ r \in Workers |-> "idle" ]
    /\ ip = [ r \in Workers |-> 0 ]
    /\ conn = [ r \in Workers |-> NoConn ]
    /\ txn = [ r \in Workers |-> NoTxn ]
    /\ resp = [ r \in Workers |-> NoResp ]
    /\ raised = [ r \in Workers |-> "none" ]
    /\ steps = [ r \in Workers |-> 0 ]
    /\ overlapped = [ r \in Workers |-> FALSE ]
    /\ started = 0
    /\ last = NoLast

\* no database file, an empty one, or one with earlier rows
Init ==
    /\ \/ /\ path = NoFile
          /\ files = [ i \in Inodes |-> EmptyDb ]
       \/ /\ path = 1
          /\ \E prior \in PriorFiles :
                 files = [ i \in Inodes |-> IF i = 1 THEN prior ELSE EmptyDb ]
    /\ InitWorkers

\* faulty variant: every page handler opens (and closes) a database connection
StaticOpeningDb(r, name, template) ==
    /\ pc[r] = "idle"
    /\ started < MaxRequests
    /\ started' = started + 1
    /\ route' = [ route EXCEPT ![r] = name ]
    /\ pc' = [ pc EXCEPT ![r] = "done" ]
    /\ resp' = [ resp EXCEPT ![r] = RenderTemplate(template) ]
    /\ path' = IF path = NoFile THEN FreshInode ELSE path
    /\ UNCHANGED << files, debugTxt, ip, conn, txn, raised, steps, overlapped, last >>

\* ------------------------------------------------------------ static routes
Static(r, name, template) ==
    /\ pc[r] = "idle"
    /\ started < MaxRequests
    /\ started' = started + 1
    /\ route' = [ route EXCEPT ![r] = name ]
    /\ pc' = [ pc EXCEPT ![r] = "done" ]
    /\ resp' = [ resp EXCEPT ![r] = RenderTemplate(template) ]
    /\ UNCHANGED << path, files, debugTxt, ip, conn, txn, raised, steps, overlapped, last >>

home(r) == Static(r, "home", "index.html")

about(r) == Static(r, "about", "about.html")

\* faulty variant: the works page lists the Piece rows read through get_db_connection
WorksListingPieces(r) ==
    /\ pc[r] = "idle"
    /\ started < MaxRequests
    /\ started' = started + 1
    /\ route' = [ route EXCEPT ![r] = "works" ]
    /\ pc' = [ pc EXCEPT ![r] = "done" ]
    /\ path' = IF path = NoFile THEN FreshInode ELSE path
    /\ resp' = [ resp EXCEPT ![r] =
                   IF "Piece" \in files[path'].tables
                   THEN RenderTemplate("index.html")
                   ELSE [ status |-> 500, body |-> "Internal Server Error",
                          unhandled |-> TRUE, pieces |-> << >> ] ]
    /\ UNCHANGED << files, debugTxt, ip, conn, txn, raised, steps, overlapped, last >>

works(r) == Static(r, "works", "index.html")

contacts(r) == Static(r, "contacts", "index.html")

\* ------------------------------------------------------------------ resetdb
StartResetdb(r) ==
    /\ pc[r] = "idle"
    /\ started < MaxRequests
    /\ started' = started + 1
    /\ route' = [ route EXCEPT ![r] = "resetdb" ]
    /\ pc' = [ pc EXCEPT ![r] = "exists" ]
    /\ overlapped' = [ s \in Workers |->
                         IF s = r THEN \E o \in Workers : o # r /\ Active(o)
                         ELSE overlapped[s] \/ Active(s) ]
    /\ UNCHANGED << path, files, debugTxt, ip, conn, txn, resp, raised, steps, last >>

\* a step of worker r raises cls at `site`; the frame's connection is dropped,
\* which rolls its open transaction back
Fail(r, site, cls, msg) ==
    /\ pc' = [ pc EXCEPT ![r] = "done" ]
    /\ ip' = [ ip EXCEPT ![r] = 0 ]
    /\ resp' = [ resp EXCEPT ![r] = HandleException(site, cls, msg) ]
    /\ raised' = [ raised EXCEPT ![r] = cls ]
    /\ conn' = [ conn EXCEPT ![r] = NoConn ]
    /\ txn' = [ txn EXCEPT ![r] = NoTxn ]
    /\ files' = Gc(files, path, conn')
    /\ steps' = [ steps EXCEPT ![r] = 0 ]
    /\ UNCHANGED << path, debugTxt, route, overlapped, started, last >>

\* if os.path.exists(DB_PATH):
CheckExists(r) ==
    /\ pc[r] = "exists"
    /\ pc' = [ pc EXCEPT ![r] = IF path # NoFile THEN "remove" ELSE "connect" ]
    /\ UNCHANGED << path, files, debugTxt, route, ip, conn, txn, resp, raised, steps,
                    overlapped, started, last >>

\* faulty variant: the existing file is left in place
RemoveFileSkipped(r) ==
    /\ pc[r] = "remove"
    /\ pc' = [ pc EXCEPT ![r] = "connect" ]
    /\ UNCHANGED << path, files, debugTxt, route, ip, conn, txn, resp, raised, steps,
                    overlapped, started, last >>

\* os.remove(DB_PATH)
RemoveFile(r) ==
    /\ pc[r] = "remove"
    /\ \E envOk \in BOOLEAN :
         LET cls == IF path = NoFile THEN "FileNotFoundError"
                    ELSE IF ~ envOk THEN "PermissionError" ELSE "none"
         IN IF cls # "none"
            THEN Fail(r, "remove", cls, "os.remove failed")
            ELSE /\ path' = NoFile
                 /\ files' = Gc(files, NoFile, conn)
                 /\ pc' = [ pc EXCEPT ![r] = "connect" ]
                 /\ UNCHANGED << debugTxt, route, ip, conn, txn, resp, raised, steps,
                                 overlapped, started, last >>

\* conn = get_db_connection(); cur = conn.cursor()
Connect(r) ==
    /\ pc[r] = "connect"
    /\ \E envOk \in BOOLEAN :
         IF ~ envOk
         THEN Fail(r, "try", "sqlite3.OperationalError", "unable to open database file")
         ELSE LET inode == IF path = NoFile THEN FreshInode ELSE path
              IN /\ path' = inode
                 /\ conn' = [ conn EXCEPT ![r] = get_db_connection(inode) ]
                 /\ files' = IF path = NoFile
                             THEN [ files EXCEPT ![inode] = EmptyDb ]
                             ELSE files
                 /\ pc' = [ pc EXCEPT ![r] = "create" ]
                 /\ ip' = [ ip EXCEPT ![r] = 1 ]
                 /\ steps' = [ steps EXCEPT ![r] = @ + 1 ]
                 /\ UNCHANGED << debugTxt, route, txn, resp, raised, overlapped,
                                 started, last >>

\* cur.execute("CREATE TABLE ..."): not inside a transaction, committed at once
CreateTable(r) ==
    /\ pc[r] = "create"
    /\ \E envOk \in BOOLEAN :
         LET res == CreateTableOp(files[conn[r].inode], Schema[ip[r]])
             exc == IF res.exc # "none" THEN res
                    ELSE IF Locked(r)
                    THEN Raise(res.db, "sqlite3.OperationalError", "database is locked")
                    ELSE IF ~ envOk
                    THEN Raise(res.db, "sqlite3.OperationalError", "disk I/O error")
                    ELSE res
         IN IF exc.exc # "none"
            THEN Fail(r, "try", exc.exc, exc.msg)
            ELSE /\ files' = [ files EXCEPT ![conn[r].inode] = res.db ]
                 /\ pc' = [ pc EXCEPT ![r] = IF ip[r] = Len(Schema) THEN "insert" ELSE @ ]
                 /\ ip' = [ ip EXCEPT ![r] = IF ip[r] = Len(Schema) THEN 1 ELSE @ + 1 ]
                 /\ steps' = [ steps EXCEPT ![r] = @ + 1 ]
                 /\ UNCHANGED << path, debugTxt, route, conn, txn, resp, raised,
                                 overlapped, started, last >>

\* faulty variant: the connection in autocommit mode, each INSERT committed at once
InsertSeedAutocommit(r) ==
    /\ pc[r] = "insert"
    /\ \E envOk \in BOOLEAN :
         LET stmt == SeedRows[ip[r]]
             res == Insert(View(r), stmt.table, stmt.values, conn[r].foreign_keys)
             exc == IF Locked(r)
                    THEN Raise(res.db, "sqlite3.OperationalError", "database is locked")
                    ELSE IF ~ envOk
                    THEN Raise(res.db, "sqlite3.OperationalError", "disk I/O error")
                    ELSE res
         IN IF exc.exc # "none"
            THEN Fail(r, "try", exc.exc, exc.msg)
            ELSE /\ files' = [ files EXCEPT ![conn[r].inode] = res.db ]
                 /\ pc' = [ pc EXCEPT ![r] = IF ip[r] = Len(SeedRows) THEN "commit" ELSE @ ]
                 /\ ip' = [ ip EXCEPT ![r] = IF ip[r] = Len(SeedRows) THEN 0 ELSE @ + 1 ]
                 /\ steps' = [ steps EXCEPT ![r] = @ + 1 ]
                 /\ UNCHANGED << path, debugTxt, route, conn, txn, resp, raised,
                                 overlapped, started, last >>

\* cur.execute("INSERT INTO ..."): opens the transaction if none is open
InsertSeed(r) ==
    /\ pc[r] = "insert"
    /\ \E envOk \in BOOLEAN :
         LET stmt == SeedRows[ip[r]]
             res == Insert(View(r), stmt.table, stmt.values, conn[r].foreign_keys)
             exc == IF ~ txn[r].active /\ Locked(r)
                    THEN Raise(res.db, "sqlite3.OperationalError", "database is locked")
                    ELSE IF ~ envOk
                    THEN Raise(res.db, "sqlite3.OperationalError", "disk I/O error")
                    ELSE res
         IN IF exc.exc # "none"
            THEN Fail(r, "try", exc.exc, exc.msg)
            ELSE /\ txn' = [ txn EXCEPT ![r] = [ active |-> TRUE, db |-> res.db ] ]
                 /\ pc' = [ pc EXCEPT ![r] = IF ip[r] = Len(SeedRows) THEN "commit" ELSE @ ]
                 /\ ip' = [ ip EXCEPT ![r] = IF ip[r] = Len(SeedRows) THEN 0 ELSE @ + 1 ]
                 /\ steps' = [ steps EXCEPT ![r] = @ + 1 ]
                 /\ UNCHANGED << path, files, debugTxt, route, conn, resp, raised,
                                 overlapped, started, last >>

\* faulty variant: conn.commit() left out
CommitForgotten(r) ==
    /\ pc[r] = "commit"
    /\ pc' = [ pc EXCEPT ![r] = "debug" ]
    /\ steps' = [ steps EXCEPT ![r] = @ + 1 ]
    /\ UNCHANGED << path, files, debugTxt, route, ip, conn, txn, resp, raised,
                    overlapped, started, last >>

\* conn.commit()
Commit(r) ==
    /\ pc[r] = "commit"
    /\ \E envOk \in BOOLEAN :
         IF ~ envOk
         THEN Fail(r, "try", "sqlite3.OperationalError", "disk I/O error")
         ELSE /\ files' = [ files EXCEPT ![conn[r].inode] = View(r) ]
              /\ txn' = [ txn EXCEPT ![r] = NoTxn ]
              /\ pc' = [ pc EXCEPT ![r] = "debug" ]
              /\ steps' = [ steps EXCEPT ![r] = @ + 1 ]
              /\ UNCHANGED << path, debugTxt, route, ip, conn, resp, raised,
                              overlapped, started, last >>

\* with open(DEBUG_PATH, "w") as dbg: ... SELECT COUNT(*) AS cnt FROM Piece ...
WriteDebug(r) ==
    /\ pc[r] = "debug"
    /\ \E envOk \in BOOLEAN :
         LET cls == IF ~ envOk THEN "PermissionError"
                    ELSE IF "Piece" \notin View(r).tables THEN "sqlite3.OperationalError"
                    ELSE "none"
         IN IF cls # "none"
            THEN Fail(r, "try", cls, IF envOk THEN "no such table" ELSE "open failed")
            ELSE /\ debugTxt' = Cardinality(View(r).Piece)
                 /\ pc' = [ pc EXCEPT ![r] = "close" ]
                 /\ steps' = [ steps EXCEPT ![r] = @ + 1 ]
                 /\ UNCHANGED << path, files, route, ip, conn, txn, resp, raised,
                                 overlapped, started, last >>

\* conn.close(); return redirect(url_for("home"))
CloseConn(r) ==
    /\ pc[r] = "close"
    /\ conn' = [ conn EXCEPT ![r] = NoConn ]
    /\ txn' = [ txn EXCEPT ![r] = NoTxn ]
    /\ files' = Gc(files, path, conn')
    /\ pc' = [ pc EXCEPT ![r] = "done" ]
    /\ resp' = [ resp EXCEPT ![r] = Redirect("home") ]
    /\ steps' = [ steps EXCEPT ![r] = @ + 1 ]
    /\ UNCHANGED << path, debugTxt, route, ip, raised, overlapped, started, last >>

\* the response leaves the worker
Return(r) ==
    /\ pc[r] = "done"
    /\ pc' = [ pc EXCEPT ![r] = "idle" ]
    /\ route' = [ route EXCEPT ![r] = "none" ]
    /\ resp' = [ resp EXCEPT ![r] = NoResp ]
    /\ raised' = [ raised EXCEPT ![r] = "none" ]
    /\ steps' = [ steps EXCEPT ![r] = 0 ]
    /\ overlapped' = [ overlapped EXCEPT ![r] = FALSE ]
    /\ UNCHANGED << path, files, debugTxt, ip, conn, txn, started, last >>

Accept(r) ==
    \/ home(r)
    \/ about(r)
    \/ works(r)
    \/ contacts(r)
    \/ StartResetdb(r)

\* the handler of /resetdb, one statement at a time
resetdb(r) ==
    \/ CheckExists(r)
    \/ RemoveFile(r)
    \/ Connect(r)
    \/ CreateTable(r)
    \/ InsertSeed(r)
    \/ Commit(r)
    \/ WriteDebug(r)
    \/ CloseConn(r)

\* threaded server: any idle worker accepts a request at any time
Next == \E r \in Workers : Accept(r) \/ resetdb(r) \/ Return(r)

Spec == Init /\ [][Next]_vars

\* one request at a time
NextSeq == \E r \in Workers : (Quiet /\ Accept(r)) \/ resetdb(r) \/ Return(r)

SpecSeq == Init /\ [][NextSeq]_vars

\* ------------------------------------------- statements against the schema
Execute(db, stmt, fk) ==
    CASE stmt.op = "insert" -> Insert(db, stmt.table, stmt.values, fk)
      [] stmt.op = "delete" -> Delete(db, stmt.table, stmt.id, fk)

RECURSIVE RunAll(_, _, _)
\* statements k.. of stmts, each on the content the one before left
RunAll(db, stmts, k) ==
    IF k > Len(stmts) THEN db
    ELSE RunAll(Execute(db, stmts[k], get_db_connection(1).foreign_keys).db, stmts, k + 1)

\* what a /resetdb that meets no failure commits
SeededDb ==
    RunAll([ EmptyDb EXCEPT !.tables = { Schema[k] : k \in 1..Len(Schema) } ],
           [ k \in 1..Len(SeedRows) |->
               [ op |-> "insert", table |-> SeedRows[k].table, id |-> NULL,
                 values |-> SeedRows[k].values ] ],
           1)

InsertStatements ==
    { [ op |-> "insert", table |-> "Instrumentation", id |-> NULL, values |-> [ name |-> n ] ] :
          n \in { "Solo Flute", "Wind Duo" } }
    \cup
    { [ op |-> "insert", table |-> "Instrument", id |-> NULL, values |-> [ name |-> n ] ] :
          n \in { "Flute", "Oboe", NullText } }
    \cup
    { [ op |-> "insert", table |-> "HasInstrument", id |-> NULL,
        values |-> [ instrumentation_id |-> a, instrument_id |-> b, instrument_count |-> c ] ] :
          a \in { 1, 3 }, b \in { 1, 5 }, c \in { 1, 0 - 1 } }
    \cup
    { [ op |-> "insert", table |-> "Piece", id |-> NULL,
        values |-> [ name |-> "New Piece", instrumentation |-> a,
                     duration_seconds |-> 120, year_of_composition |-> 2024,
                     difficulty_rating |-> d ] ] :
          a \in { NULL, 2, 3 },
          d \in { NULL, Quarters(0, 1), Quarters(3, 2), Quarters(6, 2) } }

DeleteStatements ==
    { [ op |-> "delete", table |-> "Instrumentation", id |-> i, values |-> [ name |-> NullText ] ] :
          i \in { 1, 2, 3 } }
    \cup
    { [ op |-> "delete", table |-> "Instrument", id |-> i, values |-> [ name |-> NullText ] ] :
          i \in { 1, 5 } }
    \cup
    { [ op |-> "delete", table |-> "Piece", id |-> i, values |-> [ name |-> NullText ] ] :
          i \in { 1 } }

\* one statement run the way resetdb runs its own: on a connection from
\* get_db_connection, inside try / except Exception, followed by conn.commit()
RunStatement(stmt) ==
    /\ Quiet
    /\ path # NoFile
    /\ last.n < MaxStatements
    /\ LET c == get_db_connection(path)
           res == Execute(files[c.inode], stmt, c.foreign_keys)
       IN /\ files' = [ files EXCEPT ![c.inode] = res.db ]
          /\ last' = [ n |-> last.n + 1,
                       stmt |-> stmt,
                       before |-> files[c.inode],
                       exc |-> res.exc,
                       resp |-> IF res.exc = "none" THEN Redirect("home")
                                ELSE HandleException("try", res.exc, res.msg) ]
    /\ UNCHANGED << path, debugTxt, route, pc, ip, conn, txn, resp, raised, steps,
                    overlapped, started >>

SqlInsert == \E stmt \in InsertStatements : RunStatement(stmt)

SqlDelete == \E stmt \in DeleteStatements : RunStatement(stmt)

InitSql ==
    /\ path = 1
    /\ files = [ i \in Inodes |-> IF i = 1 THEN SeededDb ELSE EmptyDb ]
    /\ InitWorkers

NextSql == SqlInsert \/ SqlDelete

SpecSql == InitSql /\ [][NextSql]_vars

\* ================================================================== claims
ResetSucceeded(r) == route[r] = "resetdb" /\ pc[r] = "done" /\ resp[r].status = 302

ResetFailed(r) == route[r] = "resetdb" /\ pc[r] = "done" /\ resp[r].status = 500

SeededPieceNames ==
    { "Meditation for Flute", "Quartet in A", "Beginner Etude", "Advanced Sonata" }

\* every foreign key of db resolves
RefIntegrity(db) ==
    /\ \A p \in db.Piece :
           p.instrumentation # NULL => p.instrumentation \in Ids(db.Instrumentation)
    /\ \A h \in db.HasInstrument :
           /\ h.instrumentation_id \in Ids(db.Instrumentation)
           /\ h.instrument_id \in Ids(db.Instrument)

\* the ratings 0.5, 1, 1.5, ..., 6
HalfSteps == { k * Quarters(0, 2) : k \in 1..12 }

LastIs(op, table) == last.stmt.op = op /\ last.stmt.table = table

\* C1: when a /resetdb answers with the redirect (requests served one at a
\* time, whatever the database file held before), the Piece table of the file
\* at DB_PATH holds exactly the four seeded pieces, and the debug report
\* counts four.
C1_ResetLeavesSeededPieces ==
    \A r \in Workers :
        ResetSucceeded(r) =>
            /\ path # NoFile
            /\ "Piece" \in files[path].tables
            /\ Cardinality(files[path].Piece) = 4
            /\ { p.name : p \in files[path].Piece } = SeededPieceNames
            /\ Ids(files[path].Piece) = 1..4
            /\ debugTxt = 4

\* a second request, a /resetdb, has just answered with the redirect
C1_Witness ==
    \E r \in Workers : ResetSucceeded(r) /\ started = 2 /\ debugTxt = 4

\* C2: in every committed database content, every non-null
\* Piece.instrumentation names an Instrumentation row and every HasInstrument
\* row names an Instrumentation row and an Instrument row.
C2_ReferentialIntegrity == \A i \in Inodes : RefIntegrity(files[i])

\* an INSERT naming a missing parent row was refused
C2_Witness ==
    /\ LastIs("insert", "HasInstrument")
    /\ last.stmt.values.instrument_count >= 0
    /\ last.stmt.values.instrument_id \notin Ids(last.before.Instrument)
    /\ last.exc = "sqlite3.IntegrityError"
    /\ files[path] = last.before

\* C3: an INSERT of a Piece whose difficulty_rating is not one of
\* 0.5, 1, ..., 6 is refused and leaves the Piece table as it was, and every
\* stored Piece row has a difficulty_rating among them.
C3_DifficultyRatingChecked ==
    /\ (LastIs("insert", "Piece") /\ last.stmt.values.difficulty_rating \notin HalfSteps)
           => /\ last.exc = "sqlite3.IntegrityError"
              /\ files[path].Piece = last.before.Piece
    /\ \A i \in Inodes : \A p \in files[i].Piece : p.difficulty_rating \in HalfSteps

\* a Piece rated 6.5, its instrumentation NULL, was refused
C3_Witness ==
    /\ LastIs("insert", "Piece")
    /\ last.stmt.values.difficulty_rating = Quarters(6, 2)
    /\ last.stmt.values.instrumentation = NULL
    /\ last.exc = "sqlite3.IntegrityError"
    /\ Cardinality(files[path].Piece) = 4

C5_DuplicateInstrumentRefused ==
    /\ (/\ LastIs("insert", "Instrument")
        /\ \E row \in last.before.Instrument : row.name = last.stmt.values.name)
           => /\ last.exc = "sqlite3.IntegrityError"
              /\ last.resp.status = 500
              /\ ~ last.resp.unhandled
              /\ files[path].Instrument = last.before.Instrument
    /\ \A i \in Inodes : \A a, b \in files[i].Instrument : a.name = b.name => a = b

\* a second "Flute" was refused
C5_Witness ==
    /\ LastIs("insert", "Instrument")
    /\ last.stmt.values.name = "Flute"
    /\ \E row \in last.before.Instrument : row.name = "Flute"
    /\ last.exc = "sqlite3.IntegrityError"

\* C6: a /resetdb in which a step raised has stopped there and answers 500
\* from one of its except clauses; it answers with the redirect only after
\* every step of the try block, conn.close() included, went through.
C6_FailuresBecome500 ==
    \A r \in Workers :
        route[r] = "resetdb" =>
            /\ raised[r] # "none" =>
                   /\ pc[r] = "done"
                   /\ resp[r].status = 500
                   /\ ~ resp[r].unhandled
            /\ pc[r] = "done" =>
                   /\ resp[r].status \in { 302, 500 }
                   /\ ~ resp[r].unhandled
                   /\ conn[r] = NoConn
            /\ ResetSucceeded(r) =>
                   /\ raised[r] = "none"
                   /\ steps[r] = 1 + Len(Schema) + Len(SeedRows) + 3

\* writing the debug report failed, after the commit
C6_Witness ==
    \E r \in Workers :
        /\ ResetFailed(r)
        /\ raised[r] = "PermissionError"
        /\ resp[r].body = "open failed"
        /\ started = 1
        /\ Cardinality(files[path].Piece) = 4

StaticRoutes == { "home", "about", "works", "contacts" }

\* worker r takes this step
Moves(r) == << pc[r], ip[r] >> # << pc'[r], ip'[r] >>

\* a step of a page request writes nothing
PageStepsWriteNothing ==
    \A r \in Workers :
        (Moves(r) /\ (route[r] \in StaticRoutes \/ route'[r] \in StaticRoutes))
            => UNCHANGED << path, files >>

\* a step that writes is a step of a /resetdb request
WritesAreResetdbSteps ==
    (<< path, files >> # << path', files' >>)
        => \E r \in Workers : Moves(r) /\ route[r] = "resetdb"

\* every row is one the file held at startup or a seed row
RowsFromStartupOrSeed ==
    \A i \in Inodes :
        /\ files[i].Instrumentation \subseteq
               LegacyDb.Instrumentation \cup SeededDb.Instrumentation
        /\ files[i].Instrument \subseteq LegacyDb.Instrument \cup SeededDb.Instrument
        /\ files[i].HasInstrument \subseteq
               LegacyDb.HasInstrument \cup SeededDb.HasInstrument
        /\ files[i].Piece \subseteq LegacyDb.Piece \cup SeededDb.Piece

\* C7: a step of a request for /, /about, /works or /contacts leaves the
\* database file and every table as they were; whenever the file or a table
\* changes, the step is one of a /resetdb request; so every row is one the
\* file held at startup or a seed row.
C7_OnlyResetdbWrites ==
    /\ [][PageStepsWriteNothing /\ WritesAreResetdbSteps]_vars
    /\ []RowsFromStartupOrSeed

\* /works has answered while the seeded rows are in place
C7_Witness ==
    \E r \in Workers :
        /\ route[r] = "works" /\ pc[r] = "done"
        /\ path # NoFile
        /\ Cardinality(files[path].Piece) = 4

\* C8: a DELETE of an existing Instrumentation row removes that row and its
\* HasInstrument rows only, keeps every Piece row, sets the instrumentation of
\* the pieces that named it to NULL and leaves the other pieces as they were;
\* referential integrity holds afterwards.
C8_DeleteInstrumentation ==
    (LastIs("delete", "Instrumentation") /\ last.stmt.id \in Ids(last.before.Instrumentation))
        => LET id == last.stmt.id
               old == last.before
               new == files[path]
           IN /\ last.exc = "none"
              /\ new.Instrumentation = { row \in old.Instrumentation : row.id # id }
              /\ new.HasInstrument = { row \in old.HasInstrument : row.instrumentation_id # id }
              /\ new.Instrument = old.Instrument
              /\ Cardinality(new.Piece) = Cardinality(old.Piece)
              /\ Ids(new.Piece) = Ids(old.Piece)
              /\ \A p \in old.Piece :
                     IF p.instrumentation = id
                     THEN [ p EXCEPT !.instrumentation = NULL ] \in new.Piece
                     ELSE p \in new.Piece
              /\ RefIntegrity(new)

\* "String Quartet" was deleted: its three HasInstrument rows are gone and
\* "Quartet in A" is kept with instrumentation NULL
C8_Witness ==
    /\ LastIs("delete", "Instrumentation")
    /\ last.stmt.id = 2
    /\ Cardinality(last.before.HasInstrument) = 4
    /\ Cardinality(files[path].HasInstrument) = 1
    /\ \E p \in files[path].Piece : p.name = "Quartet in A" /\ p.instrumentation = NULL

\* worker r holds a connection to a file that DB_PATH no longer names
OnRemovedFile(r) == conn[r].inode # NoFile /\ conn[r].inode # path

\* worker r's request met what only another request's steps can cause
Raced(r) ==
    \/ OnRemovedFile(r)
    \/ ResetFailed(r) /\ resp[r].body = "table already exists"
    \/ ResetFailed(r) /\ raised[r] = "FileNotFoundError"

\* C9: a /resetdb works on a removed file, hits an existing table or finds the
\* file gone at os.remove only if another /resetdb was in progress during it;
\* requests served one after the other never do.
C9_RacesNeedOverlap ==
    \A r \in Workers : (Active(r) /\ Raced(r)) => overlapped[r]

\* one request is still seeding a file that the other has removed
C9_Witness ==
    \E r, s \in Workers :
        /\ r # s
        /\ Active(r) /\ Active(s)
        /\ pc[r] \in { "create", "insert", "commit" }
        /\ OnRemovedFile(r)

\* the seed rows db holds, table by table
SeedRowsIn(db) ==
    << db.Instrumentation \cap SeededDb.Instrumentation,
       db.Instrument \cap SeededDb.Instrument,
       db.HasInstrument \cap SeededDb.HasInstrument,
       db.Piece \cap SeededDb.Piece >>

\* C10: every committed database content holds either no seed row or all
\* fourteen of them.
C10_SeedAllOrNothing ==
    \A i \in Inodes :
        \/ SeedRowsIn(files[i]) = << {}, {}, {}, {} >>
        \/ /\ SeedRowsIn(files[i]) = << SeededDb.Instrumentation, SeededDb.Instrument,
                                        SeededDb.HasInstrument, SeededDb.Piece >>
           /\ Cardinality(files[i].Instrumentation) = 2
           /\ Cardinality(files[i].Instrument) = 4
           /\ Cardinality(files[i].HasInstrument) = 4
           /\ Cardinality(files[i].Piece) = 4

\* the only /resetdb so far failed at an INSERT or at the commit, and the
\* file at DB_PATH has the four tables and no row
C10_Witness ==
    \E r \in Workers :
        /\ ResetFailed(r)
        /\ resp[r].body = "disk I/O error"
        /\ started = 1
        /\ path # NoFile
        /\ files[path].tables = { Schema[k] : k \in 1..Len(Schema) }
        /\ SeedRowsIn(files[path]) = << {}, {}, {}, {} >>

====
